---- MODULE Spec2Model ----
(***************************************************************************)
(* Model of the pronunciation-judging pipeline of speech_service.py:       *)
(* text normalisation and fuzzy scoring, audio conversion through scratch  *)
(* files, the lazily loaded Whisper model, the two transcription passes    *)
(* and the verdict built by recognize_speech.                              *)
(***************************************************************************)
EXTENDS Integers, Sequences, FiniteSets, TLC

(***************************************************************************)
(* Bounds of the exploration.                                              *)
(***************************************************************************)
NumReqs == 2

Reqs == 1..NumReqs

(***************************************************************************)
(* Characters.  A string is a sequence of characters; every character is   *)
(* an atom with the Unicode properties normalize_text looks at.            *)
(*   "a" "b"      lower-case letters        "A"  upper-case letter         *)
(*   " "          whitespace                "!"  punctuation               *)
(*   "acute"      combining acute accent U+0301 (category Mn)              *)
(*   "a_acute"    precomposed U+00E1        "A_acute" precomposed U+00C1   *)
(***************************************************************************)
Chars == {"a", "b", "A", " ", "!", "acute", "a_acute", "A_acute"}

CodePoint(c) ==
    CASE c = " " -> 32
      [] c = "!" -> 33
      [] c = "A" -> 65
      [] c = "a" -> 97
      [] c = "b" -> 98
      [] c = "A_acute" -> 193
      [] c = "a_acute" -> 225
      [] c = "acute" -> 769

IsSpace(c) == c = " "

IsAlnum(c) == c \in {"a", "b", "A", "a_acute", "A_acute"}

Lower(c) ==
    CASE c = "A" -> "a"
      [] c = "A_acute" -> "a_acute"
      [] OTHER -> c

\* unicodedata.normalize("NFC", text): a base letter followed by the
\* combining accent becomes the precomposed letter when one exists.
RECURSIVE NFC(_)
NFC(s) ==
    IF Len(s) < 2 THEN s
    ELSE IF s[2] = "acute" /\ s[1] \in {"a", "A"}
         THEN <<(IF s[1] = "a" THEN "a_acute" ELSE "A_acute")>> \o NFC(SubSeq(s, 3, Len(s)))
         ELSE <<s[1]>> \o NFC(Tail(s))

RECURSIVE LStrip(_)
LStrip(s) == IF s # <<>> /\ IsSpace(s[1]) THEN LStrip(Tail(s)) ELSE s

RECURSIVE RStrip(_)
RStrip(s) ==
    IF s # <<>> /\ IsSpace(s[Len(s)]) THEN RStrip(SubSeq(s, 1, Len(s) - 1)) ELSE s

\* str.strip()
Strip(s) == RStrip(LStrip(s))

\* str.lower()
LowerStr(s) == [i \in 1..Len(s) |-> Lower(s[i])]

RECURSIVE KeepAlnumSpace(_)
KeepAlnumSpace(s) ==
    IF s = <<>> THEN <<>>
    ELSE IF IsAlnum(s[1]) \/ IsSpace(s[1])
         THEN <<s[1]>> \o KeepAlnumSpace(Tail(s))
         ELSE KeepAlnumSpace(Tail(s))

normalize_text(text) == KeepAlnumSpace(LowerStr(Strip(NFC(text))))

(***************************************************************************)
(* rapidfuzz.fuzz.token_sort_ratio: split on whitespace, sort the tokens,  *)
(* join them with one space, then the normalised Indel similarity          *)
(* 100 * 2*LCS / (len1 + len2).  A score is kept exact as the fraction     *)
(* 100 * n / d.                                                            *)
(***************************************************************************)
RECURSIVE SplitWs(_, _)
SplitWs(s, cur) ==
    IF s = <<>> THEN (IF cur = <<>> THEN <<>> ELSE <<cur>>)
    ELSE IF IsSpace(s[1])
         THEN (IF cur = <<>> THEN <<>> ELSE <<cur>>) \o SplitWs(Tail(s), <<>>)
         ELSE SplitWs(Tail(s), Append(cur, s[1]))

RECURSIVE StrLess(_, _)
StrLess(s, t) ==
    IF t = <<>> THEN FALSE
    ELSE IF s = <<>> THEN TRUE
    ELSE IF s[1] # t[1] THEN CodePoint(s[1]) < CodePoint(t[1])
    ELSE StrLess(Tail(s), Tail(t))

RECURSIVE InsertSorted(_, _)
InsertSorted(tok, toks) ==
    IF toks = <<>> THEN <<tok>>
    ELSE IF StrLess(toks[1], tok) THEN <<toks[1]>> \o InsertSorted(tok, Tail(toks))
    ELSE <<tok>> \o toks

RECURSIVE SortTokens(_)
SortTokens(toks) ==
    IF toks = <<>> THEN <<>> ELSE InsertSorted(toks[1], SortTokens(Tail(toks)))

RECURSIVE JoinSpace(_)
JoinSpace(toks) ==
    IF toks = <<>> THEN <<>>
    ELSE IF Len(toks) = 1 THEN toks[1]
    ELSE toks[1] \o <<" ">> \o JoinSpace(Tail(toks))

TokenSort(s) == JoinSpace(SortTokens(SplitWs(s, <<>>)))

RECURSIVE LCS(_, _)
LCS(s, t) ==
    IF s = <<>> \/ t = <<>> THEN 0
    ELSE IF s[1] = t[1] THEN 1 + LCS(Tail(s), Tail(t))
    ELSE LET x == LCS(Tail(s), t)
             y == LCS(s, Tail(t))
         IN IF x >= y THEN x ELSE y

ZeroScore == [n |-> 0, d |-> 1]

token_sort_ratio(s1, s2) ==
    LET a == TokenSort(s1)
        b == TokenSort(s2)
    IN IF Len(a) + Len(b) = 0 THEN [n |-> 1, d |-> 1]
       ELSE [n |-> 2 * LCS(a, b), d |-> Len(a) + Len(b)]

calculate_similarityUnguarded(expected, actual) ==
    token_sort_ratio(normalize_text(expected), normalize_text(actual))

calculate_similarity(expected, actual) ==
    LET exp_norm == normalize_text(expected)
        act_norm == normalize_text(actual)
    IN IF act_norm = <<>> THEN ZeroScore
       ELSE token_sort_ratio(exp_norm, act_norm)

\* Comparisons of exact scores; a threshold is given in hundredths.
ScoreGt(x, y) == x.n * y.d > y.n * x.d

ScoreMax(x, y) == IF ScoreGt(y, x) THEN y ELSE x

ScoreGeThreshold(x, th) == 10000 * x.n >= th * x.d

\* round(x, 1): the score in tenths, ties to even.
Round1(x) ==
    LET q == (1000 * x.n) \div x.d
        r == (1000 * x.n) % x.d
    IN IF 2 * r > x.d THEN q + 1
       ELSE IF 2 * r = x.d THEN q + (q % 2)
       ELSE q

(***************************************************************************)
(* MIME strings are sequences of lexical atoms: a media type, ";", " " or  *)
(* a codec parameter.  Upper-case media types stand for what a client may  *)
(* send before case folding.                                               *)
(***************************************************************************)
MimeLower(tok) ==
    CASE tok = "AUDIO/WEBM" -> "audio/webm"
      [] tok = "AUDIO/WAV" -> "audio/wav"
      [] OTHER -> tok

MimeLowerStr(m) == [i \in 1..Len(m) |-> MimeLower(m[i])]

MIME_TO_EXT ==
    ( <<"audio/webm">> :> "webm" ) @@
    ( <<"audio/webm", ";", "codecs=opus">> :> "webm" ) @@
    ( <<"audio/webm", ";", "codecs=vp8">> :> "webm" ) @@
    ( <<"audio/ogg">> :> "ogg" ) @@
    ( <<"audio/ogg", ";", "codecs=opus">> :> "ogg" ) @@
    ( <<"audio/mp4">> :> "mp4" ) @@
    ( <<"audio/mp4", ";", "codecs=mp4a.40.2">> :> "mp4" ) @@
    ( <<"audio/mpeg">> :> "mp3" ) @@
    ( <<"audio/wav">> :> "wav" ) @@
    ( <<"audio/x-wav">> :> "wav" )

\* mime_type.split(";")[0]
RECURSIVE BeforeSemicolon(_)
BeforeSemicolon(m) ==
    IF m = <<>> \/ m[1] = ";" THEN <<>>
    ELSE <<m[1]>> \o BeforeSemicolon(Tail(m))

mime_to_extExactOnly(mime_type) ==
    LET mime_clean == MimeLowerStr(Strip(mime_type))
    IN IF mime_clean \in DOMAIN MIME_TO_EXT THEN MIME_TO_EXT[mime_clean] ELSE "webm"

mime_to_ext(mime_type) ==
    LET mime_clean == MimeLowerStr(Strip(mime_type))
        base == Strip(BeforeSemicolon(mime_clean))
    IN IF mime_clean \in DOMAIN MIME_TO_EXT THEN MIME_TO_EXT[mime_clean]
       ELSE IF base \in DOMAIN MIME_TO_EXT THEN MIME_TO_EXT[base]
       ELSE "webm"

LANGUAGE_CODES == ( "telugu" :> "te" ) @@ ( "assamese" :> "as" ) @@ ( "english" :> "en" )

LanguageCodeEnglishFallback(language) ==
    IF language \in DOMAIN LANGUAGE_CODES THEN LANGUAGE_CODES[language] ELSE "en"

\* LANGUAGE_CODES.get(language, "te")
LanguageCode(language) ==
    IF language \in DOMAIN LANGUAGE_CODES THEN LANGUAGE_CODES[language] ELSE "te"

(***************************************************************************)
(* Scratch files.  tempfile gives every request its own random base name;  *)
(* a path is that base name with an extension.                             *)
(***************************************************************************)
TmpInPath(r, ext) == [base |-> r, ext |-> ext]

\* tmp_in_path.rsplit(".", 1)[0] + ".wav"
TmpWavPath(tmp_in_path) == [base |-> tmp_in_path.base, ext |-> "wav"]

NoPath == [base |-> 0, ext |-> "none"]

(***************************************************************************)
(* State.                                                                  *)
(***************************************************************************)
VARIABLES
    clients,            \* requests that will be submitted in this run
    DISABLE_PASS1,      \* feature flag read from the environment at import
    files,              \* scratch files that exist on disk
    whisper_model,      \* module global _whisper_model; 0 is None
    loads,              \* number of WhisperModel instances constructed so far
    pc,                 \* position of every request
    inp,                \* arguments of recognize_speech and what the audio holds
    tmp_in_path,        \* _convert: input scratch file
    wav_path,           \* recognize_speech: wav_path (NoPath is None)
    model,              \* _transcribe: model (0 before get_whisper_model returns)
    calls,              \* number of model.transcribe calls of the request
    started,            \* passes whose model.transcribe call has been entered
    finished,           \* passes whose model.transcribe call has returned
    transcribed_native, \* first component returned by _transcribe
    transcribed_roman,  \* second component returned by _transcribe
    sims,               \* locals similarity and roman_similarity, unrounded
    verdict,            \* dict returned by recognize_speech
    exc,                \* message of the exception being handled
    propagated,         \* an exception left recognize_speech
    NOISE_REDUCTION_ENABLED, \* feature flag of the conversion
    audio,              \* _convert: the decoded AudioSegment of every request
    hints,              \* language arguments of the request's transcribe calls
    form,               \* api_recognize: the form fields received
    http_status,        \* api_recognize: status of an HTTPException raised
    arg,                \* argument of a call of one of the pure functions
    res,                \* results of that call, in order
    sim_calls,          \* calculate_similarity calls made for the request so far
    serial,             \* requests are submitted one after the other
    tts,                \* tts_service: a generate_tts call
    config_req,         \* main.py: a POST /api/config request
    service,            \* infra: scaling of the Cloud Run service
    invocations,        \* infra: the cloud function invocations
    killed,             \* infra: kill_run has scaled the service to 0
    reachy,             \* reachy_service._reachy (0 is None)
    ssh,                \* reachy_service._ssh (0 is None)
    connected_host,     \* reachy_service._connected_host ("" is None)
    connections,        \* every connection opened so far and whether it was closed
    tasks,              \* reachy_service: the connect and disconnect coroutines
    REACHY_SDK_AVAILABLE, \* reachy2_sdk could be imported
    PARAMIKO_AVAILABLE  \* paramiko could be imported

pureVars == <<arg, res>>

apiVars == <<form, http_status>>

ttsVars == <<tts>>

configVars == <<config_req>>

lambdaVars == <<service, invocations, killed>>

reachyVars ==
    <<reachy, ssh, connected_host, connections, tasks, REACHY_SDK_AVAILABLE,
      PARAMIKO_AVAILABLE>>

\* Everything outside speech recognition.
otherVars == <<pureVars, ttsVars, configVars, lambdaVars, reachyVars>>

vars == <<clients, DISABLE_PASS1, files, whisper_model, loads, pc, inp, tmp_in_path,
          wav_path, model, calls, started, finished, transcribed_native,
          transcribed_roman, sims, verdict, exc, propagated, NOISE_REDUCTION_ENABLED,
          audio, hints, form, http_status, arg, res, sim_calls, serial, tts,
          config_req, service, invocations, killed, reachy, ssh, connected_host,
          connections, tasks, REACHY_SDK_AVAILABLE, PARAMIKO_AVAILABLE>>

(***************************************************************************)
(* Inputs.  A request is the arguments of recognize_speech plus what the   *)
(* model hears in the audio under each language hint (native, roman) and   *)
(* whether its transcribe calls wait on a two-party barrier (blocking).    *)
(* Thresholds are in hundredths of a percent point.                        *)
(***************************************************************************)
HeardTexts == {<<>>, <<"a">>, <<"a", "b">>, <<" ", "A", "b">>}

AllInputs ==
    [language : {"telugu", "klingon"},
     expected_word : {<<"a", "b">>, <<"b">>},
     romanized : {<<>>, <<"a", "b">>},
     mime_type : {<<"audio/webm">>, <<"audio/wav">>},
     threshold : {0, 5000, 6667, 10000},
     native : HeardTexts,
     roman : HeardTexts,
     blocking : BOOLEAN]

FewInputs ==
    [language : {"telugu"},
     expected_word : {<<"a", "b">>},
     romanized : {<<"a", "b">>},
     mime_type : {<<"audio/webm">>},
     threshold : {5000},
     native : {<<"a", "b">>},
     roman : {<<>>, <<"a", "b">>},
     blocking : {FALSE}]

\* One request explores every input; concurrent requests explore a few.
Inputs == IF Cardinality(clients) = 1 THEN AllInputs ELSE FewInputs

NoInput ==
    [language |-> "", expected_word |-> <<>>, romanized |-> <<>>, mime_type |-> <<>>,
     threshold |-> 0, native |-> <<>>, roman |-> <<>>, blocking |-> FALSE]

NoSims == [script |-> ZeroScore, roman |-> ZeroScore]

NoVerdict == [none |-> TRUE]

\* The AudioSegment held by _convert: frame counts at 16 kHz as decoded and
\* resampled, of the silence appended, and now; what its samples are; and what
\* became of noise reduction ("none", "applied" or "failed").
NoAudio ==
    [resampled |-> FALSE, decoded |-> 0, samples |-> "raw", nr |-> "none",
     silence |-> 0, frames |-> 0]

NoForm == [language |-> "", similarity_threshold |-> "", audio_len |-> 0, received |-> FALSE]

NoArg == [fn |-> "", a |-> <<>>, b |-> <<>>]

\* A generate_tts call: its arguments, the synthesizer calls made so far and
\* the bytes returned.
NoTts ==
    [pc |-> "off", text |-> <<>>, language |-> "", slow |-> TRUE, calls |-> <<>>,
     result |-> <<>>]

\* A POST /api/config request: the Content-Length header (-1 when the body is
\* sent chunked, without the header), the size and kind of the body, whether
\* the body was parsed and the status of the response.
NoConfigReq ==
    [pc |-> "off", content_length |-> -1, body_len |-> 0, body |-> "", parsed |-> FALSE,
     status |-> 0]

\* service.template.scaling of the Cloud Run service.
NoService == [max_instance_count |-> 0, min_instance_count |-> 0]

InitCommon ==
    /\ DISABLE_PASS1 \in BOOLEAN
    /\ files = {}
    /\ whisper_model = 0
    /\ loads = 0
    /\ pc = [r \in Reqs |-> "idle"]
    /\ inp = [r \in Reqs |-> NoInput]
    /\ tmp_in_path = [r \in Reqs |-> NoPath]
    /\ wav_path = [r \in Reqs |-> NoPath]
    /\ model = [r \in Reqs |-> 0]
    /\ calls = [r \in Reqs |-> 0]
    /\ started = [r \in Reqs |-> {}]
    /\ finished = [r \in Reqs |-> {}]
    /\ transcribed_native = [r \in Reqs |-> <<>>]
    /\ transcribed_roman = [r \in Reqs |-> <<>>]
    /\ sims = [r \in Reqs |-> NoSims]
    /\ verdict = [r \in Reqs |-> NoVerdict]
    /\ exc = [r \in Reqs |-> ""]
    /\ propagated = [r \in Reqs |-> FALSE]
    /\ audio = [r \in Reqs |-> NoAudio]
    /\ hints = [r \in Reqs |-> <<>>]
    /\ form = [r \in Reqs |-> NoForm]
    /\ http_status = [r \in Reqs |-> 0]
    /\ sim_calls = [r \in Reqs |-> 0]

\* The parts of the program a run does not exercise stay as they are at import.
PipelineOff ==
    /\ clients = {}
    /\ InitCommon
    /\ DISABLE_PASS1 = FALSE
    /\ NOISE_REDUCTION_ENABLED = FALSE
    /\ serial = FALSE

PureOff == arg = NoArg /\ res = <<>>

TtsOff == tts = NoTts

ConfigOff == config_req = NoConfigReq

LambdaOff ==
    /\ service = NoService
    /\ invocations = <<>>
    /\ killed = FALSE

ReachyOff ==
    /\ reachy = 0
    /\ ssh = 0
    /\ connected_host = ""
    /\ connections = <<>>
    /\ tasks = <<>>
    /\ REACHY_SDK_AVAILABLE = FALSE
    /\ PARAMIKO_AVAILABLE = FALSE

Init ==
    /\ clients = {1}
    /\ InitCommon
    /\ NOISE_REDUCTION_ENABLED \in BOOLEAN
    /\ serial = FALSE
    /\ PureOff /\ TtsOff /\ ConfigOff /\ LambdaOff /\ ReachyOff

InitConc ==
    /\ clients = Reqs
    /\ InitCommon
    /\ NOISE_REDUCTION_ENABLED \in BOOLEAN
    /\ serial = FALSE
    /\ PureOff /\ TtsOff /\ ConfigOff /\ LambdaOff /\ ReachyOff

\* Requests that arrive one after the other: none starts while one is running.
InitSerial ==
    /\ clients = Reqs
    /\ InitCommon
    /\ NOISE_REDUCTION_ENABLED \in BOOLEAN
    /\ serial = TRUE
    /\ PureOff /\ TtsOff /\ ConfigOff /\ LambdaOff /\ ReachyOff

(***************************************************************************)
(* Exceptions.  The try block of recognize_speech spans conversion, model  *)
(* loading and both passes; an exception raised there is handled by the    *)
(* except clause, any other would leave the function.                      *)
(***************************************************************************)
(***************************************************************************)
(* The waveform of _convert, counted in frames at 16 kHz.                  *)
(***************************************************************************)
FRAME_RATE == 16000

MIN_DURATION_MS == 1000

FramesPerMs == FRAME_RATE \div 1000

\* Frame counts a decoded and resampled recording may have: empty, under one
\* millisecond, around 999 ms, one second, and longer.
AllDecodedFrames ==
    {0, 15, MIN_DURATION_MS * FramesPerMs - 24, MIN_DURATION_MS * FramesPerMs - 8,
     MIN_DURATION_MS * FramesPerMs, MIN_DURATION_MS * FramesPerMs + 16}

FewDecodedFrames == {15}

DecodedFrames == IF Cardinality(clients) = 1 THEN AllDecodedFrames ELSE FewDecodedFrames

\* pydub's len(audio): round(1000 * frame_count / frame_rate), halves to even
LenMs(frames) ==
    LET q == frames \div FramesPerMs
        m == frames % FramesPerMs
    IN IF 2 * m > FramesPerMs THEN q + 1
       ELSE IF 2 * m = FramesPerMs THEN q + (q % 2)
       ELSE q

\* AudioSegment.silent(duration, frame_rate=16000): int(frame_rate * duration / 1000)
SilentFrames(duration) == (FRAME_RATE * duration) \div 1000

Decoded(f) ==
    [resampled |-> TRUE, decoded |-> f, samples |-> "raw", nr |-> "none",
     silence |-> 0, frames |-> f]

NoiseFailures == {"none", "import", "reduce_noise", "highpass", "encode"}

\* _reduce_noise: the cleaned samples, one per input sample, or the audio it
\* was given when a step raised.
reduce_noise(a, failure) ==
    IF failure = "none" THEN [a EXCEPT !.samples = "cleaned", !.nr = "applied"]
    ELSE [a EXCEPT !.nr = "failed"]

PadToMinimumWholeSecond(a) ==
    IF LenMs(a.frames) < MIN_DURATION_MS
    THEN [a EXCEPT !.silence = SilentFrames(MIN_DURATION_MS),
                   !.frames = @ + SilentFrames(MIN_DURATION_MS)]
    ELSE a

PadToMinimum(a) ==
    IF LenMs(a.frames) < MIN_DURATION_MS
    THEN [a EXCEPT !.silence = SilentFrames(MIN_DURATION_MS - LenMs(a.frames)),
                   !.frames = @ + SilentFrames(MIN_DURATION_MS - LenMs(a.frames))]
    ELSE a

TrySitesConversionOnly == {"convert"}

TrySites == {"convert", "model", "pass2", "pass1"}

Raise(r, site, msg) ==
    /\ exc' = [exc EXCEPT ![r] = msg]
    /\ IF site \in TrySites
       THEN pc' = [pc EXCEPT ![r] = "except"] /\ UNCHANGED propagated
       ELSE pc' = [pc EXCEPT ![r] = "finally"] /\ propagated' = [propagated EXCEPT ![r] = TRUE]

(***************************************************************************)
(* recognize_speech, entry.                                                *)
(***************************************************************************)
(***************************************************************************)
(* main.py: POST /api/recognize                                            *)
(***************************************************************************)
MAX_AUDIO_BYTES == 10 * 1024 * 1024

VALID_LANGUAGES == {"telugu", "assamese", "english"}

\* float(similarity_threshold): a number (in hundredths), nan, or ValueError
ParseFloat(str) ==
    CASE str = "0" -> [kind |-> "num", val |-> 0]
      [] str = "50" -> [kind |-> "num", val |-> 5000]
      [] str = "100" -> [kind |-> "num", val |-> 10000]
      [] str = "100.5" -> [kind |-> "num", val |-> 10050]
      [] str = "-1" -> [kind |-> "num", val |-> -100]
      [] str = "nan" -> [kind |-> "nan", val |-> 0]
      [] OTHER -> [kind |-> "ValueError", val |-> 0]

\* 0.0 <= threshold <= 100.0; every comparison with nan is false
ThresholdInRange(t) == t.kind = "num" /\ 0 <= t.val /\ t.val <= 10000

AllForms ==
    [language : {"telugu", "klingon"},
     similarity_threshold : {"0", "100", "100.5", "-1", "nan", "abc"},
     audio_len : {0, 1, MAX_AUDIO_BYTES, MAX_AUDIO_BYTES + 1},
     received : {TRUE}]

FewForms ==
    [language : {"telugu"},
     similarity_threshold : {"50"},
     audio_len : {1, MAX_AUDIO_BYTES + 1},
     received : {TRUE}]

Forms == IF Cardinality(clients) = 1 THEN AllForms ELSE FewForms

\* What the recognizer hears in a request that came through the endpoint.
ApiHeard == IF Cardinality(clients) = 1 THEN {<<>>, <<"a", "b">>} ELSE {<<"a", "b">>}

\* recognize_speech or api_recognize is running for the request.
InFlight(r) == pc[r] \notin {"idle", "rejected", "done", "raised"}

ApiValidateNoSizeLimit(f) ==
    LET threshold == ParseFloat(f.similarity_threshold)
    IN IF f.language \notin VALID_LANGUAGES THEN 400
       ELSE IF threshold.kind = "ValueError" THEN 400
       ELSE IF ~ThresholdInRange(threshold) THEN 400
       ELSE IF f.audio_len = 0 THEN 400
       ELSE 0

\* The status of the HTTPException api_recognize raises for the form, 0 if none.
ApiValidate(f) ==
    LET threshold == ParseFloat(f.similarity_threshold)
    IN IF f.language \notin VALID_LANGUAGES THEN 400
       ELSE IF threshold.kind = "ValueError" THEN 400
       ELSE IF ~ThresholdInRange(threshold) THEN 400
       ELSE IF f.audio_len = 0 THEN 400
       ELSE IF f.audio_len > MAX_AUDIO_BYTES THEN 413
       ELSE 0

\* api_recognize up to its call of recognize_speech.
ApiRecognize(r) ==
    /\ pc[r] = "idle"
    /\ r \in clients
    /\ serial => \A o \in Reqs \ {r} : ~InFlight(o)
    /\ \E f \in Forms :
          /\ form' = [form EXCEPT ![r] = f]
          /\ http_status' = [http_status EXCEPT ![r] = ApiValidate(f)]
          /\ IF ApiValidate(f) # 0
             THEN /\ pc' = [pc EXCEPT ![r] = "rejected"]
                  /\ UNCHANGED inp
             ELSE /\ pc' = [pc EXCEPT ![r] = "write_tmp"]
                  /\ \E heard \in ApiHeard :
                        inp' = [inp EXCEPT ![r] =
                                   [language |-> f.language,
                                    expected_word |-> <<"a", "b">>,
                                    romanized |-> <<"a", "b">>,
                                    mime_type |-> <<"audio/webm">>,
                                    threshold |-> ParseFloat(f.similarity_threshold).val,
                                    native |-> <<"a", "b">>,
                                    roman |-> heard,
                                    blocking |-> FALSE]]
    /\ UNCHANGED <<clients, DISABLE_PASS1, files, whisper_model, loads, tmp_in_path,
                   wav_path, model, calls, started, finished, transcribed_native,
                   transcribed_roman, sims, verdict, exc, propagated>>
    /\ UNCHANGED <<NOISE_REDUCTION_ENABLED, audio, hints, sim_calls, serial, otherVars>>

(***************************************************************************)
(* recognize_speech                                                        *)
(***************************************************************************)
\* A direct call of recognize_speech.
RecognizeStart(r) ==
    /\ pc[r] = "idle"
    /\ r \in clients
    /\ serial => \A o \in Reqs \ {r} : ~InFlight(o)
    /\ \E i \in Inputs : inp' = [inp EXCEPT ![r] = i]
    /\ pc' = [pc EXCEPT ![r] = "write_tmp"]
    /\ UNCHANGED <<clients, DISABLE_PASS1, files, whisper_model, loads, tmp_in_path,
                   wav_path, model, calls, started, finished, transcribed_native,
                   transcribed_roman, sims, verdict, exc, propagated>>
    /\ UNCHANGED <<NOISE_REDUCTION_ENABLED, audio, hints, apiVars, sim_calls, serial, otherVars>>

(***************************************************************************)
(* _convert_to_wav._convert                                                *)
(***************************************************************************)
\* NamedTemporaryFile(suffix=.ext, delete=False) and tmp_in.write: the file
\* exists from creation on, also when the write raises.
ConvertWriteTmp(r) ==
    /\ pc[r] = "write_tmp"
    /\ LET p == TmpInPath(r, mime_to_ext(inp[r].mime_type))
       IN /\ files' = files \cup {p}
          /\ tmp_in_path' = [tmp_in_path EXCEPT ![r] = p]
          /\ \E ok \in BOOLEAN :
                IF ok THEN pc' = [pc EXCEPT ![r] = "decode"] /\ UNCHANGED <<exc, propagated>>
                ELSE Raise(r, "convert", "write")
    /\ UNCHANGED <<clients, DISABLE_PASS1, whisper_model, loads, inp, wav_path, model,
                   calls, started, finished, transcribed_native, transcribed_roman, sims,
                   verdict>>
    /\ UNCHANGED <<NOISE_REDUCTION_ENABLED, audio, hints, apiVars, sim_calls, serial, otherVars>>

ConvertDecodeSwallow(r) ==
    /\ pc[r] = "decode"
    /\ \E ok \in BOOLEAN :
          IF ok
          THEN /\ \E f \in DecodedFrames : audio' = [audio EXCEPT ![r] = Decoded(f)]
               /\ pc' = [pc EXCEPT ![r] = IF NOISE_REDUCTION_ENABLED THEN "noise" ELSE "pad"]
               /\ UNCHANGED files
          ELSE /\ files' = files \ {tmp_in_path[r]}
               /\ pc' = [pc EXCEPT ![r] = "get_model"]
               /\ UNCHANGED audio
    /\ UNCHANGED <<clients, DISABLE_PASS1, whisper_model, loads, inp, tmp_in_path, wav_path,
                   model, calls, started, finished, transcribed_native, transcribed_roman,
                   sims, verdict, exc, propagated>>
    /\ UNCHANGED <<NOISE_REDUCTION_ENABLED, hints, apiVars, sim_calls, serial, otherVars>>

\* AudioSegment.from_file and the resampling to 16 kHz mono; when one raises,
\* the finally clause unlinks the input.
ConvertDecode(r) ==
    /\ pc[r] = "decode"
    /\ \E ok \in BOOLEAN :
          IF ok
          THEN /\ \E f \in DecodedFrames : audio' = [audio EXCEPT ![r] = Decoded(f)]
               /\ pc' = [pc EXCEPT ![r] = IF NOISE_REDUCTION_ENABLED THEN "noise" ELSE "pad"]
               /\ UNCHANGED <<files, exc, propagated>>
          ELSE /\ files' = files \ {tmp_in_path[r]}
               /\ Raise(r, "convert", "decode")
               /\ UNCHANGED audio
    /\ UNCHANGED <<clients, DISABLE_PASS1, whisper_model, loads, inp, tmp_in_path, wav_path,
                   model, calls, started, finished, transcribed_native, transcribed_roman,
                   sims, verdict>>
    /\ UNCHANGED <<NOISE_REDUCTION_ENABLED, hints, apiVars, sim_calls, serial, otherVars>>

\* A failure of _reduce_noise that is not caught.
ReduceNoisePropagates(r) ==
    /\ pc[r] = "noise"
    /\ \E failure \in NoiseFailures :
          IF failure = "none"
          THEN /\ audio' = [audio EXCEPT ![r] = reduce_noise(@, failure)]
               /\ pc' = [pc EXCEPT ![r] = "pad"]
               /\ UNCHANGED <<files, exc, propagated>>
          ELSE /\ files' = files \ {tmp_in_path[r]}
               /\ Raise(r, "convert", "noise")
               /\ audio' = [audio EXCEPT ![r] = NoAudio]
    /\ UNCHANGED <<clients, DISABLE_PASS1, whisper_model, loads, inp, tmp_in_path, wav_path,
                   model, calls, started, finished, transcribed_native, transcribed_roman,
                   sims, verdict>>
    /\ UNCHANGED <<NOISE_REDUCTION_ENABLED, hints, apiVars, sim_calls, serial, otherVars>>

\* if NOISE_REDUCTION_ENABLED: audio = _reduce_noise(audio)
ReduceNoise(r) ==
    /\ pc[r] = "noise"
    /\ \E failure \in NoiseFailures :
          audio' = [audio EXCEPT ![r] = reduce_noise(@, failure)]
    /\ pc' = [pc EXCEPT ![r] = "pad"]
    /\ UNCHANGED <<clients, DISABLE_PASS1, files, whisper_model, loads, inp, tmp_in_path,
                   wav_path, model, calls, started, finished, transcribed_native,
                   transcribed_roman, sims, verdict, exc, propagated>>
    /\ UNCHANGED <<NOISE_REDUCTION_ENABLED, hints, apiVars, sim_calls, serial, otherVars>>

\* if len(audio) < MIN_DURATION_MS: audio = audio + silence
ConvertPad(r) ==
    /\ pc[r] = "pad"
    /\ audio' = [audio EXCEPT ![r] = PadToMinimum(@)]
    /\ pc' = [pc EXCEPT ![r] = "export"]
    /\ UNCHANGED <<clients, DISABLE_PASS1, files, whisper_model, loads, inp, tmp_in_path,
                   wav_path, model, calls, started, finished, transcribed_native,
                   transcribed_roman, sims, verdict, exc, propagated>>
    /\ UNCHANGED <<NOISE_REDUCTION_ENABLED, hints, apiVars, sim_calls, serial, otherVars>>

\* audio.export(tmp_wav_path), then the finally clause unlinks the input and
\* the path is returned; the AudioSegment is a local of _convert and goes with
\* it.  A failing export may already have created its output.
ConvertExport(r) ==
    /\ pc[r] = "export"
    /\ LET out == TmpWavPath(tmp_in_path[r])
       IN \E outcome \in {"ok", "fails_before_create", "fails_after_create"} :
             /\ files' = (IF outcome = "fails_before_create" THEN files ELSE files \cup {out})
                             \ {tmp_in_path[r]}
             /\ IF outcome = "ok"
                THEN /\ wav_path' = [wav_path EXCEPT ![r] = out]
                     /\ pc' = [pc EXCEPT ![r] = "get_model"]
                     /\ UNCHANGED <<exc, propagated>>
                ELSE /\ Raise(r, "convert", "export")
                     /\ UNCHANGED wav_path
    /\ audio' = [audio EXCEPT ![r] = NoAudio]
    /\ UNCHANGED <<clients, DISABLE_PASS1, whisper_model, loads, inp, tmp_in_path, model,
                   calls, started, finished, transcribed_native, transcribed_roman, sims,
                   verdict>>
    /\ UNCHANGED <<NOISE_REDUCTION_ENABLED, hints, apiVars, sim_calls, serial, otherVars>>

(***************************************************************************)
(* get_whisper_model, called from the worker thread of _transcribe.        *)
(***************************************************************************)
\* if _whisper_model is None: ... else return _whisper_model
GetModelCheck(r) ==
    /\ pc[r] = "get_model"
    /\ IF whisper_model = 0
       THEN pc' = [pc EXCEPT ![r] = "load"] /\ UNCHANGED model
       ELSE pc' = [pc EXCEPT ![r] = "pass2"] /\ model' = [model EXCEPT ![r] = whisper_model]
    /\ UNCHANGED <<clients, DISABLE_PASS1, files, whisper_model, loads, inp, tmp_in_path,
                   wav_path, calls, started, finished, transcribed_native,
                   transcribed_roman, sims, verdict, exc, propagated>>
    /\ UNCHANGED <<NOISE_REDUCTION_ENABLED, audio, hints, apiVars, sim_calls, serial, otherVars>>

\* A construction that raises after the global was bound to the unfinished object.
LoadModelCachesPartial(r) ==
    /\ pc[r] = "load"
    /\ \E ok \in BOOLEAN :
          IF ok
          THEN /\ loads' = loads + 1
               /\ whisper_model' = loads + 1
               /\ pc' = [pc EXCEPT ![r] = "load_return"]
               /\ UNCHANGED <<exc, propagated>>
          ELSE /\ Raise(r, "model", "load")
               /\ whisper_model' = -1
               /\ UNCHANGED loads
    /\ UNCHANGED <<clients, DISABLE_PASS1, files, inp, tmp_in_path, wav_path, model, calls,
                   started, finished, transcribed_native, transcribed_roman, sims, verdict>>
    /\ UNCHANGED <<NOISE_REDUCTION_ENABLED, audio, hints, apiVars, sim_calls, serial, otherVars>>

\* _whisper_model = WhisperModel(...): the construction may raise; an instance
\* is named by its rank among the instances constructed.
LoadModel(r) ==
    /\ pc[r] = "load"
    /\ \E ok \in BOOLEAN :
          IF ok
          THEN /\ loads' = loads + 1
               /\ whisper_model' = loads + 1
               /\ pc' = [pc EXCEPT ![r] = "load_return"]
               /\ UNCHANGED <<exc, propagated>>
          ELSE /\ Raise(r, "model", "load")
               /\ UNCHANGED <<whisper_model, loads>>
    /\ UNCHANGED <<clients, DISABLE_PASS1, files, inp, tmp_in_path, wav_path, model, calls,
                   started, finished, transcribed_native, transcribed_roman, sims, verdict>>
    /\ UNCHANGED <<NOISE_REDUCTION_ENABLED, audio, hints, apiVars, sim_calls, serial, otherVars>>

\* return _whisper_model
LoadReturn(r) ==
    /\ pc[r] = "load_return"
    /\ model' = [model EXCEPT ![r] = whisper_model]
    /\ pc' = [pc EXCEPT ![r] = "pass2"]
    /\ UNCHANGED <<clients, DISABLE_PASS1, files, whisper_model, loads, inp, tmp_in_path,
                   wav_path, calls, started, finished, transcribed_native,
                   transcribed_roman, sims, verdict, exc, propagated>>
    /\ UNCHANGED <<NOISE_REDUCTION_ENABLED, audio, hints, apiVars, sim_calls, serial, otherVars>>

(***************************************************************************)
(* _transcribe.  A model.transcribe call raises when the WAV file is gone, *)
(* when it waits on the barrier for a sibling call that has not started    *)
(* (the wait times out), or for a reason of its own.                       *)
(***************************************************************************)
TranscribeFailure(r, sibling) ==
    IF wav_path[r] \notin files THEN {"file"}
    ELSE IF inp[r].blocking /\ sibling \notin started[r] THEN {"barrier"}
    ELSE {"none", "transcribe"}

\* if romanized: calculate_similarity(romanized, text) else 0.0
RomanSimilarity(romanized, text) ==
    IF romanized # <<>> THEN calculate_similarity(romanized, text) ELSE ZeroScore

\* Calls of calculate_similarity made by "calculate_similarity(romanized, text)
\* if romanized else 0.0".
SimilarityCalls(romanized) == IF romanized # <<>> THEN 1 ELSE 0

SkipNativePassAboveOnly(disabled, roman_sim_early, similarity_threshold) ==
    disabled \/ ScoreGt(roman_sim_early, [n |-> similarity_threshold, d |-> 10000])

\* DISABLE_PASS1 or roman_sim_early >= similarity_threshold
SkipNativePass(disabled, roman_sim_early, similarity_threshold) ==
    disabled \/ ScoreGeThreshold(roman_sim_early, similarity_threshold)

\* Pass 2 (language="en") runs first, then the decision to skip pass 1.
Pass2(r) ==
    /\ pc[r] = "pass2"
    /\ calls' = [calls EXCEPT ![r] = @ + 1]
    /\ started' = [started EXCEPT ![r] = @ \cup {"roman"}]
    /\ \E f \in TranscribeFailure(r, "native") :
          IF f # "none"
          THEN /\ Raise(r, "pass2", f)
               /\ UNCHANGED <<finished, transcribed_native, transcribed_roman, sim_calls>>
          ELSE LET text == Strip(inp[r].roman)
                   roman_sim_early == RomanSimilarity(inp[r].romanized, text)
               IN /\ finished' = [finished EXCEPT ![r] = @ \cup {"roman"}]
                  /\ transcribed_roman' = [transcribed_roman EXCEPT ![r] = text]
                  /\ IF SkipNativePass(DISABLE_PASS1, roman_sim_early, inp[r].threshold)
                     THEN /\ transcribed_native' = [transcribed_native EXCEPT ![r] = <<>>]
                          /\ pc' = [pc EXCEPT ![r] = "score"]
                     ELSE /\ pc' = [pc EXCEPT ![r] = "pass1"]
                          /\ UNCHANGED transcribed_native
                  /\ sim_calls' = [sim_calls EXCEPT ![r] = @ + SimilarityCalls(inp[r].romanized)]
                  /\ UNCHANGED <<exc, propagated>>
    /\ UNCHANGED <<clients, DISABLE_PASS1, files, whisper_model, loads, inp, tmp_in_path,
                   wav_path, model, sims, verdict>>
    /\ hints' = [hints EXCEPT ![r] = Append(@, "en")]
    /\ UNCHANGED <<NOISE_REDUCTION_ENABLED, audio, apiVars, serial, otherVars>>

\* Pass 1 (language=lang_code), only when pass 2 did not settle the request.
Pass1(r) ==
    /\ pc[r] = "pass1"
    /\ calls' = [calls EXCEPT ![r] = @ + 1]
    /\ started' = [started EXCEPT ![r] = @ \cup {"native"}]
    /\ \E f \in TranscribeFailure(r, "roman") :
          IF f # "none"
          THEN /\ Raise(r, "pass1", f)
               /\ UNCHANGED <<finished, transcribed_native>>
          ELSE /\ finished' = [finished EXCEPT ![r] = @ \cup {"native"}]
               /\ transcribed_native' = [transcribed_native EXCEPT ![r] = Strip(inp[r].native)]
               /\ pc' = [pc EXCEPT ![r] = "score"]
               /\ UNCHANGED <<exc, propagated>>
    /\ UNCHANGED <<clients, DISABLE_PASS1, files, whisper_model, loads, inp, tmp_in_path,
                   wav_path, model, transcribed_roman, sims, verdict>>
    /\ hints' = [hints EXCEPT ![r] = Append(@, LanguageCode(inp[r].language))]
    /\ UNCHANGED <<NOISE_REDUCTION_ENABLED, audio, apiVars, sim_calls, serial, otherVars>>

(***************************************************************************)
(* recognize_speech: scoring, verdict, except and finally clauses.         *)
(***************************************************************************)
DisplayedTranscriptTieToRoman(roman_similarity, similarity, t_roman, t_native) ==
    IF ScoreGt(similarity, roman_similarity) THEN t_native ELSE t_roman

\* transcribed_roman if roman_similarity > similarity else transcribed_native
DisplayedTranscript(roman_similarity, similarity, t_roman, t_native) ==
    IF ScoreGt(roman_similarity, similarity) THEN t_roman ELSE t_native

BestSimilarityScriptOnly(similarity, roman_similarity) == similarity

\* max(similarity, roman_similarity)
BestSimilarity(similarity, roman_similarity) == ScoreMax(similarity, roman_similarity)

IsCorrectStrict(best_similarity, similarity_threshold) ==
    10000 * best_similarity.n > similarity_threshold * best_similarity.d

\* best_similarity >= similarity_threshold
IsCorrect(best_similarity, similarity_threshold) ==
    ScoreGeThreshold(best_similarity, similarity_threshold)

SuccessVerdictRomanFallback(i, t_native, t_roman) ==
    LET similarity == calculate_similarity(i.expected_word, t_native)
        roman_similarity ==
            calculate_similarity(IF i.romanized # <<>> THEN i.romanized ELSE i.expected_word,
                                 t_roman)
        best_similarity == ScoreMax(similarity, roman_similarity)
    IN [transcribed |-> IF ScoreGt(roman_similarity, similarity) THEN t_roman ELSE t_native,
        expected |-> i.expected_word,
        similarity |-> Round1(best_similarity),
        script_similarity |-> Round1(similarity),
        roman_similarity |-> Round1(roman_similarity),
        is_correct |-> ScoreGeThreshold(best_similarity, i.threshold),
        language |-> i.language]

\* The dict of the success path; similarities are rounded to tenths.
SuccessVerdict(i, t_native, t_roman) ==
    LET similarity == calculate_similarity(i.expected_word, t_native)
        roman_similarity == RomanSimilarity(i.romanized, t_roman)
        best_similarity == BestSimilarity(similarity, roman_similarity)
    IN [transcribed |-> DisplayedTranscript(roman_similarity, similarity, t_roman, t_native),
        expected |-> i.expected_word,
        similarity |-> Round1(best_similarity),
        script_similarity |-> Round1(similarity),
        roman_similarity |-> Round1(roman_similarity),
        is_correct |-> IsCorrect(best_similarity, i.threshold),
        language |-> i.language]

\* The dict of the except clause.
ErrorVerdict(i, e) ==
    [transcribed |-> <<>>,
     expected |-> i.expected_word,
     similarity |-> 0,
     script_similarity |-> 0,
     roman_similarity |-> 0,
     is_correct |-> FALSE,
     language |-> i.language,
     error |-> e]

Score(r) ==
    /\ pc[r] = "score"
    /\ sims' = [sims EXCEPT ![r] =
                  [script |-> calculate_similarity(inp[r].expected_word, transcribed_native[r]),
                   roman |-> RomanSimilarity(inp[r].romanized, transcribed_roman[r])]]
    /\ verdict' = [verdict EXCEPT ![r] =
                     SuccessVerdict(inp[r], transcribed_native[r], transcribed_roman[r])]
    /\ sim_calls' = [sim_calls EXCEPT ![r] = @ + 1 + SimilarityCalls(inp[r].romanized)]
    /\ pc' = [pc EXCEPT ![r] = "finally"]
    /\ UNCHANGED <<clients, DISABLE_PASS1, files, whisper_model, loads, inp, tmp_in_path,
                   wav_path, model, calls, started, finished, transcribed_native,
                   transcribed_roman, exc, propagated>>
    /\ UNCHANGED <<NOISE_REDUCTION_ENABLED, audio, hints, apiVars, serial, otherVars>>

Except(r) ==
    /\ pc[r] = "except"
    /\ verdict' = [verdict EXCEPT ![r] = ErrorVerdict(inp[r], exc[r])]
    /\ pc' = [pc EXCEPT ![r] = "finally"]
    /\ UNCHANGED <<clients, DISABLE_PASS1, files, whisper_model, loads, inp, tmp_in_path,
                   wav_path, model, calls, started, finished, transcribed_native,
                   transcribed_roman, sims, exc, propagated>>
    /\ UNCHANGED <<NOISE_REDUCTION_ENABLED, audio, hints, apiVars, sim_calls, serial, otherVars>>

\* if wav_path and os.path.exists(wav_path): os.unlink(wav_path)
Finally(r) ==
    /\ pc[r] = "finally"
    /\ files' = IF wav_path[r] # NoPath /\ wav_path[r] \in files
                THEN files \ {wav_path[r]} ELSE files
    /\ pc' = [pc EXCEPT ![r] = IF propagated[r] THEN "raised" ELSE "done"]
    /\ UNCHANGED <<clients, DISABLE_PASS1, whisper_model, loads, inp, tmp_in_path, wav_path,
                   model, calls, started, finished, transcribed_native, transcribed_roman,
                   sims, verdict, exc, propagated>>
    /\ UNCHANGED <<NOISE_REDUCTION_ENABLED, audio, hints, apiVars, sim_calls, serial, otherVars>>

Next ==
    \E r \in Reqs :
        \/ ApiRecognize(r)
        \/ RecognizeStart(r)
        \/ ConvertWriteTmp(r)
        \/ ConvertDecode(r)
        \/ ReduceNoise(r)
        \/ ConvertPad(r)
        \/ ConvertExport(r)
        \/ GetModelCheck(r)
        \/ LoadModel(r)
        \/ LoadReturn(r)
        \/ Pass2(r)
        \/ Pass1(r)
        \/ Score(r)
        \/ Except(r)
        \/ Finally(r)

Spec == Init /\ [][Next]_vars

SpecConc == InitConc /\ [][Next]_vars

SpecSerial == InitSerial /\ [][Next]_vars

(***************************************************************************)
(* The pure functions of speech_service.py, applied to arguments drawn     *)
(* from bounded sets.                                                      *)
(***************************************************************************)
MaxTextLen == 3

MaxSimLen == 2

MaxMimeLen == 3

Texts(n) == UNION {[1..k -> Chars] : k \in 0..n}

\* Lexical pieces of a Content-Type value.
MimeAtoms ==
    {"audio/webm", "AUDIO/WAV", "audio/wav", "audio/ogg", "audio/unknown",
     ";", " ", "codecs=opus", "codecs=x"}

MimeTypes(n) == UNION {[1..k -> MimeAtoms] : k \in 0..n}

\* The call made: one of the three functions with its arguments.
InitPure ==
    /\ PipelineOff /\ TtsOff /\ ConfigOff /\ LambdaOff /\ ReachyOff
    /\ \/ \E t \in Texts(MaxTextLen) : arg = [fn |-> "normalize_text", a |-> t, b |-> <<>>]
       \/ \E e \in Texts(MaxSimLen), t \in Texts(MaxSimLen) :
             arg = [fn |-> "calculate_similarity", a |-> e, b |-> t]
       \/ \E m \in MimeTypes(MaxMimeLen) : arg = [fn |-> "mime_to_ext", a |-> m, b |-> <<>>]
    /\ res = <<>>

pipelineVars ==
    <<clients, DISABLE_PASS1, files, whisper_model, loads, pc, inp, tmp_in_path,
      wav_path, model, calls, started, finished, transcribed_native,
      transcribed_roman, sims, verdict, exc, propagated, NOISE_REDUCTION_ENABLED,
      audio, hints, apiVars, sim_calls, serial>>

\* normalize_text(text), and normalize_text of what it returned
CallNormalizeText ==
    /\ arg.fn = "normalize_text"
    /\ Len(res) < 2
    /\ res' = IF res = <<>> THEN <<normalize_text(arg.a)>>
                ELSE Append(res, normalize_text(res[1]))
    /\ UNCHANGED <<arg, pipelineVars, ttsVars, configVars, lambdaVars, reachyVars>>

CallCalculateSimilarity ==
    /\ arg.fn = "calculate_similarity"
    /\ res = <<>>
    /\ res' = <<calculate_similarity(arg.a, arg.b)>>
    /\ UNCHANGED <<arg, pipelineVars, ttsVars, configVars, lambdaVars, reachyVars>>

CallMimeToExt ==
    /\ arg.fn = "mime_to_ext"
    /\ res = <<>>
    /\ res' = <<mime_to_ext(arg.a)>>
    /\ UNCHANGED <<arg, pipelineVars, ttsVars, configVars, lambdaVars, reachyVars>>

NextPure == CallNormalizeText \/ CallCalculateSimilarity \/ CallMimeToExt

SpecPure == InitPure /\ [][NextPure]_vars

(***************************************************************************)
(* tts_service.py: generate_tts                                            *)
(***************************************************************************)
MaxTtsTextLen == 1

TTS_LANGUAGE_CODES == ( "telugu" :> "te" ) @@ ( "assamese" :> "as" ) @@ ( "english" :> "en" )

\* LANGUAGE_CODES.get(language, "en")
TtsLanguageCode(language) ==
    IF language \in DOMAIN TTS_LANGUAGE_CODES THEN TTS_LANGUAGE_CODES[language] ELSE "en"

TtsLanguages == {"telugu", "assamese", "english", "klingon"}

\* The bytes _generate_tts_sync returns are determined by its arguments.
Synthesized(text, lang_code, slow) == <<[text |-> text, lang |-> lang_code, slow |-> slow]>>

InitTts ==
    /\ PipelineOff /\ PureOff /\ ConfigOff /\ LambdaOff /\ ReachyOff
    /\ \E t \in Texts(MaxTtsTextLen), l \in TtsLanguages, sl \in BOOLEAN :
          tts = [pc |-> "first", text |-> t, language |-> l, slow |-> sl,
                 calls |-> <<>>, result |-> <<>>]

notTtsVars == <<pipelineVars, pureVars, configVars, lambdaVars, reachyVars>>

\* A first call whose exception is not handled.
TtsFirstCallNoFallback ==
    /\ tts.pc = "first"
    /\ LET lang_code == TtsLanguageCode(tts.language)
       IN \E ok \in BOOLEAN :
             tts' = [tts EXCEPT
                       !.calls = Append(@, [lang |-> lang_code, ok |-> ok]),
                       !.result = IF ok THEN Synthesized(tts.text, lang_code, tts.slow) ELSE @,
                       !.pc = IF ok THEN "returned" ELSE "raised"]
    /\ UNCHANGED notTtsVars

\* try: _generate_tts_sync(text, lang_code, slow)
TtsFirstCall ==
    /\ tts.pc = "first"
    /\ LET lang_code == TtsLanguageCode(tts.language)
       IN \E ok \in BOOLEAN :
             tts' = [tts EXCEPT
                       !.calls = Append(@, [lang |-> lang_code, ok |-> ok]),
                       !.result = IF ok THEN Synthesized(tts.text, lang_code, tts.slow) ELSE @,
                       !.pc = IF ok THEN "returned" ELSE "fallback"]
    /\ UNCHANGED notTtsVars

\* except Exception: try: _generate_tts_sync(text, "en", slow) except: raise
TtsFallbackCall ==
    /\ tts.pc = "fallback"
    /\ \E ok \in BOOLEAN :
          tts' = [tts EXCEPT
                    !.calls = Append(@, [lang |-> "en", ok |-> ok]),
                    !.result = IF ok THEN Synthesized(tts.text, "en", tts.slow) ELSE @,
                    !.pc = IF ok THEN "returned" ELSE "raised"]
    /\ UNCHANGED notTtsVars

NextTts == TtsFirstCall \/ TtsFallbackCall

SpecTts == InitTts /\ [][NextTts]_vars

(***************************************************************************)
(* main.py: POST /api/config                                               *)
(***************************************************************************)
MAX_CONFIG_BODY == 4096

BodySizes ==
    {0, 2, MAX_CONFIG_BODY - 1, MAX_CONFIG_BODY, MAX_CONFIG_BODY + 1, 2 * MAX_CONFIG_BODY}

\* What the body holds: a JSON object (with well or ill typed fields) or
\* something request.json() cannot decode.
BodyKinds ==
    {"object", "languages_list", "languages_not_list", "categories_not_list", "not_json"}

\* A body sent with a Content-Length header has that length; a chunked body
\* comes without the header.
InitConfig ==
    /\ PipelineOff /\ PureOff /\ TtsOff /\ LambdaOff /\ ReachyOff
    /\ \E n \in BodySizes, k \in BodyKinds, chunked \in BOOLEAN :
          config_req = [pc |-> "received",
                        content_length |-> IF chunked THEN -1 ELSE n,
                        body_len |-> n, body |-> k, parsed |-> FALSE, status |-> 0]

notConfigVars == <<pipelineVars, pureVars, ttsVars, lambdaVars, reachyVars>>

\* int(request.headers.get("content-length", 0))
ContentLength(req) == IF req.content_length = -1 THEN 0 ELSE req.content_length

\* if content_length > MAX_CONFIG_BODY: raise HTTPException(413)
ConfigCheckLength ==
    /\ config_req.pc = "received"
    /\ config_req' =
          IF ContentLength(config_req) > MAX_CONFIG_BODY
          THEN [config_req EXCEPT !.pc = "responded", !.status = 413]
          ELSE [config_req EXCEPT !.pc = "read_body"]
    /\ UNCHANGED notConfigVars

\* body = await request.json(), the two type checks and the merged answer
ConfigParse ==
    /\ config_req.pc = "read_body"
    /\ config_req' =
          [config_req EXCEPT
             !.pc = "responded",
             !.parsed = TRUE,
             !.status = CASE config_req.body = "not_json" -> 500
                          [] config_req.body \in {"languages_not_list", "categories_not_list"} -> 400
                          [] OTHER -> 200]
    /\ UNCHANGED notConfigVars

NextConfig == ConfigCheckLength \/ ConfigParse

SpecConfig == InitConfig /\ [][NextConfig]_vars

(***************************************************************************)
(* infra/lambda: kill_run, restore_run and daily_guardrail, the cloud      *)
(* functions that scale the Cloud Run service.  Invocations may overlap;   *)
(* get_service and update_service are separate calls of the Cloud Run API. *)
(***************************************************************************)
MaxInvocations == 3

\* The Pub/Sub message of a Cloud Monitoring notification, decoded: whether it
\* has an "incident" object and the "state" in it ("absent" when it has none).
NoNotification == [incident |-> FALSE, state |-> "absent"]

Notifications ==
    {NoNotification} \cup [incident : {TRUE}, state : {"open", "closed", "OPEN", "absent"}]

\* notification.get("incident", {}).get("state", "")
IncidentState(n) == IF n.incident /\ n.state # "absent" THEN n.state ELSE ""

GuardrailActsOnAnyCase(state) == state \in {"open", "OPEN"}

\* if state != "open": return
GuardrailActsOn(state) == state = "open"

\* MAX_INSTANCES of restore_run's environment; "2" when unset
MaxInstancesSettings == {2, 4}

Scaling(max, min) == [max_instance_count |-> max, min_instance_count |-> min]

Invocation(kind, at, n, max_instances) ==
    [kind |-> kind, pc |-> at, notification |-> n, max_instances |-> max_instances,
     snapshot |-> NoService, write |-> NoService, reads |-> 0, updates |-> 0]

InitLambda ==
    /\ PipelineOff /\ PureOff /\ TtsOff /\ ConfigOff /\ ReachyOff
    /\ service \in {Scaling(2, 0), Scaling(4, 1)}
    /\ invocations = <<>>
    /\ killed = FALSE

notLambdaVars == <<pipelineVars, pureVars, ttsVars, configVars, reachyVars>>

\* kill_run.handler up to get_service: decoding the budget message may raise.
InvokeKillRun ==
    /\ Len(invocations) < MaxInvocations
    /\ \E decodes \in BOOLEAN :
          invocations' = Append(invocations,
              Invocation("kill_run", IF decodes THEN "get" ELSE "raised", NoNotification, 0))
    /\ UNCHANGED <<service, killed, notLambdaVars>>

\* restore_run.handler up to get_service.
InvokeRestoreRun ==
    /\ Len(invocations) < MaxInvocations
    /\ \E m \in MaxInstancesSettings :
          invocations' = Append(invocations, Invocation("restore_run", "get", NoNotification, m))
    /\ UNCHANGED <<service, killed, notLambdaVars>>

\* daily_guardrail.handler up to get_service: decoding may raise, and any
\* state other than "open" returns at once.
InvokeDailyGuardrail ==
    /\ Len(invocations) < MaxInvocations
    /\ \/ invocations' = Append(invocations,
                                 Invocation("daily_guardrail", "raised", NoNotification, 0))
       \/ \E n \in Notifications :
             invocations' = Append(invocations,
                 Invocation("daily_guardrail",
                            IF GuardrailActsOn(IncidentState(n)) THEN "get" ELSE "returned",
                            n, 0))
    /\ UNCHANGED <<service, killed, notLambdaVars>>

\* service = client.get_service(name=service_path), and what the handler then
\* sets on the object it got.
GetService(i) ==
    /\ invocations[i].pc = "get"
    /\ \E ok \in BOOLEAN :
          invocations' =
            [invocations EXCEPT ![i] =
               IF ~ok THEN [@ EXCEPT !.pc = "raised"]
               ELSE IF @.kind = "restore_run"
               THEN IF service.max_instance_count = 0
                    THEN [@ EXCEPT !.pc = "update", !.reads = @ + 1, !.snapshot = service,
                                   !.write = Scaling(invocations[i].max_instances, 0)]
                    ELSE [@ EXCEPT !.pc = "returned", !.reads = @ + 1, !.snapshot = service]
               ELSE [@ EXCEPT !.pc = "update", !.reads = @ + 1, !.snapshot = service,
                              !.write = Scaling(0, 0)]]
    /\ UNCHANGED <<service, killed, notLambdaVars>>

\* client.update_service(service=service)
UpdateService(i) ==
    /\ invocations[i].pc = "update"
    /\ \E ok \in BOOLEAN :
          IF ok
          THEN /\ service' = invocations[i].write
               /\ invocations' = [invocations EXCEPT ![i].pc = "returned", ![i].updates = @ + 1]
               /\ killed' = (killed \/ invocations[i].kind = "kill_run")
          ELSE /\ invocations' = [invocations EXCEPT ![i].pc = "raised"]
               /\ UNCHANGED <<service, killed>>
    /\ UNCHANGED notLambdaVars

NextLambda ==
    \/ InvokeKillRun
    \/ InvokeRestoreRun
    \/ InvokeDailyGuardrail
    \/ \E i \in DOMAIN invocations : GetService(i)
    \/ \E i \in DOMAIN invocations : UpdateService(i)

SpecLambda == InitLambda /\ [][NextLambda]_vars

(***************************************************************************)
(* reachy_service.py: connect and disconnect.  The coroutines run on one   *)
(* event loop, so a coroutine runs undisturbed from one await that         *)
(* suspends it to the next; the awaits that suspend are the three          *)
(* run_in_executor calls.  A connection is named by its rank among the     *)
(* connections opened.                                                     *)
(***************************************************************************)
NumTasks == 2

MaxConnections == 3

Tasks == 1..NumTasks

Hosts == {"reachy.local", "10.0.0.7"}

IdleTask == [pc |-> "idle", op |-> "", host |-> "", closing |-> 0, sdk_ok |-> FALSE, ssh_ok |-> FALSE]

InitReachy ==
    /\ PipelineOff /\ PureOff /\ TtsOff /\ ConfigOff /\ LambdaOff
    /\ reachy = 0
    /\ ssh = 0
    /\ connected_host = ""
    /\ connections = <<>>
    /\ tasks = [t \in Tasks |-> IdleTask]
    /\ REACHY_SDK_AVAILABLE \in BOOLEAN
    /\ PARAMIKO_AVAILABLE \in BOOLEAN

notReachyVars == <<pipelineVars, pureVars, ttsVars, configVars, lambdaVars>>

\* The connection has been disconnected (or closed); an exception of the call
\* is swallowed.
Closed(conns, c) == [conns EXCEPT ![c].closed = TRUE]

\* connect after "await disconnect()": the next await that suspends it, or
\* "return" when neither library is available.
AfterDisconnect(task) ==
    IF task.op = "disconnect" THEN IdleTask
    ELSE IF REACHY_SDK_AVAILABLE THEN [task EXCEPT !.pc = "sdk_wait", !.closing = 0]
    ELSE IF PARAMIKO_AVAILABLE THEN [task EXCEPT !.pc = "ssh_wait", !.closing = 0]
    ELSE IdleTask

\* disconnect from "if _ssh:" on: close, _ssh = None, _connected_host = None
DisconnectTail(t, task) ==
    /\ connections' = IF ssh # 0 THEN Closed(connections, ssh) ELSE connections
    /\ ssh' = 0
    /\ connected_host' = ""
    /\ tasks' = [tasks EXCEPT ![t] = AfterDisconnect(task)]

\* disconnect from its start: "if _reachy:" awaits _reachy.disconnect in the
\* executor; otherwise the rest follows at once.
DisconnectHead(t, task) ==
    IF reachy # 0
    THEN /\ tasks' = [tasks EXCEPT ![t] = [task EXCEPT !.pc = "disconnect_wait", !.closing = reachy]]
         /\ UNCHANGED <<reachy, ssh, connected_host, connections>>
    ELSE /\ DisconnectTail(t, task)
         /\ UNCHANGED reachy

\* connect(host) up to its first suspension
CallConnect(t) ==
    /\ tasks[t].pc = "idle"
    /\ \E h \in Hosts : DisconnectHead(t, [IdleTask EXCEPT !.op = "connect", !.host = h])
    /\ UNCHANGED <<REACHY_SDK_AVAILABLE, PARAMIKO_AVAILABLE, notReachyVars>>

\* disconnect() up to its first suspension
CallDisconnect(t) ==
    /\ tasks[t].pc = "idle"
    /\ DisconnectHead(t, [IdleTask EXCEPT !.op = "disconnect"])
    /\ UNCHANGED <<REACHY_SDK_AVAILABLE, PARAMIKO_AVAILABLE, notReachyVars>>

\* after "await loop.run_in_executor(None, _reachy.disconnect)": _reachy = None
\* and the rest of disconnect
ResumeDisconnect(t) ==
    /\ tasks[t].pc = "disconnect_wait"
    /\ reachy' = 0
    /\ connections' =
          LET closed == Closed(connections, tasks[t].closing)
          IN IF ssh # 0 THEN Closed(closed, ssh) ELSE closed
    /\ ssh' = 0
    /\ connected_host' = ""
    /\ tasks' = [tasks EXCEPT ![t] = AfterDisconnect(tasks[t])]
    /\ UNCHANGED <<REACHY_SDK_AVAILABLE, PARAMIKO_AVAILABLE, notReachyVars>>

\* if sdk_ok or ssh_ok: _connected_host = host; return
ConnectReturn(task) ==
    connected_host' = IF task.sdk_ok \/ task.ssh_ok THEN task.host ELSE connected_host

\* after "_reachy = await loop.run_in_executor(None, _sdk_connect)", which may
\* have raised instead
ResumeSdkConnect(t) ==
    /\ tasks[t].pc = "sdk_wait"
    /\ \E ok \in {FALSE} \cup {o \in {TRUE} : Len(connections) < MaxConnections} :
          LET task == [tasks[t] EXCEPT !.sdk_ok = ok]
          IN /\ IF ok
                THEN /\ connections' = Append(connections, [kind |-> "sdk", closed |-> FALSE])
                     /\ reachy' = Len(connections) + 1
                ELSE UNCHANGED <<connections, reachy>>
             /\ IF PARAMIKO_AVAILABLE
                THEN /\ tasks' = [tasks EXCEPT ![t] = [task EXCEPT !.pc = "ssh_wait"]]
                     /\ UNCHANGED connected_host
                ELSE /\ tasks' = [tasks EXCEPT ![t] = IdleTask]
                     /\ ConnectReturn(task)
    /\ UNCHANGED <<ssh, REACHY_SDK_AVAILABLE, PARAMIKO_AVAILABLE, notReachyVars>>

\* after "_ssh = await loop.run_in_executor(None, _ssh_connect)", which may
\* have raised instead, to the return of connect
ResumeSshConnect(t) ==
    /\ tasks[t].pc = "ssh_wait"
    /\ \E ok \in {FALSE} \cup {o \in {TRUE} : Len(connections) < MaxConnections} :
          LET task == [tasks[t] EXCEPT !.ssh_ok = ok]
          IN /\ IF ok
                THEN /\ connections' = Append(connections, [kind |-> "ssh", closed |-> FALSE])
                     /\ ssh' = Len(connections) + 1
                ELSE UNCHANGED <<connections, ssh>>
             /\ tasks' = [tasks EXCEPT ![t] = IdleTask]
             /\ ConnectReturn(task)
    /\ UNCHANGED <<reachy, REACHY_SDK_AVAILABLE, PARAMIKO_AVAILABLE, notReachyVars>>

NextReachy ==
    \E t \in Tasks :
        \/ CallConnect(t)
        \/ CallDisconnect(t)
        \/ ResumeDisconnect(t)
        \/ ResumeSdkConnect(t)
        \/ ResumeSshConnect(t)

SpecReachy == InitReachy /\ [][NextReachy]_vars

(***************************************************************************)
(* Properties.                                                             *)
(***************************************************************************)
Returned(r) == pc[r] = "done"

HasError(r) == "error" \in DOMAIN verdict[r]

Max(x, y) == IF x >= y THEN x ELSE y

\* C1: recognize_speech never lets an exception reach its caller: whatever
\* raised inside it (conversion, model load, either pass), it returns the error
\* verdict (is_correct false, the three similarities 0.0, transcribed "", the
\* message in 'error', expected and language echoed); a call in which nothing
\* raised returns a verdict without an 'error' field.
C1_ExceptionsBecomeErrorVerdicts ==
    \A r \in Reqs :
        /\ ~propagated[r]
        /\ pc[r] # "raised"
        /\ Returned(r) =>
              IF exc[r] # ""
              THEN verdict[r] = [transcribed |-> <<>>,
                                 expected |-> inp[r].expected_word,
                                 similarity |-> 0,
                                 script_similarity |-> 0,
                                 roman_similarity |-> 0,
                                 is_correct |-> FALSE,
                                 language |-> inp[r].language,
                                 error |-> exc[r]]
              ELSE ~HasError(r)

\* C1 witness: the native pass raised after the romanized pass had succeeded,
\* and the call returned an error verdict.
C1_Witness ==
    \E r \in Reqs :
        Returned(r) /\ exc[r] = "transcribe" /\ "roman" \in finished[r] /\ HasError(r)

\* C2 as stated: in every returned verdict, error verdicts included, is_correct
\* holds exactly when the reported 'similarity' field is >= the threshold.
C2_IsCorrectIffReportedSimilarity ==
    \A r \in Reqs :
        Returned(r) => (verdict[r].is_correct <=> (10 * verdict[r].similarity >= inp[r].threshold))

\* C2 amended: in a verdict without 'error', is_correct holds exactly when the
\* unrounded maximum of the script and romanized similarity is >= the threshold;
\* an error verdict has is_correct false whatever the threshold.
C2_IsCorrectIffBestSimilarity ==
    \A r \in Reqs :
        Returned(r) =>
            IF HasError(r) THEN verdict[r].is_correct = FALSE
            ELSE verdict[r].is_correct <=>
                    ScoreGeThreshold(ScoreMax(sims[r].script, sims[r].roman), inp[r].threshold)

\* C2 witness: a success verdict judged incorrect although its rounded
\* 'similarity' (66.7) is above the threshold (66.67).
C2_Witness ==
    \E r \in Reqs :
        /\ Returned(r) /\ ~HasError(r)
        /\ ~verdict[r].is_correct
        /\ 10 * verdict[r].similarity >= inp[r].threshold

\* C3: in every returned verdict the 'similarity' field is the larger of the
\* 'script_similarity' and 'roman_similarity' fields.
C3_SimilarityIsMaxOfFields ==
    \A r \in Reqs :
        Returned(r) =>
            verdict[r].similarity = Max(verdict[r].script_similarity, verdict[r].roman_similarity)

\* C3 witness: a verdict whose two scores are positive and differ.
C3_Witness ==
    \E r \in Reqs :
        /\ Returned(r)
        /\ verdict[r].roman_similarity > 0
        /\ verdict[r].script_similarity > verdict[r].roman_similarity

\* C4: when the native pass on the audio yields exactly the expected word, the
\* verdict reports script_similarity = 100.0 whatever the romanized pass returns.
C4_NativeMatchScores100 ==
    \A r \in Reqs :
        (Returned(r) /\ ~HasError(r) /\ Strip(inp[r].native) = inp[r].expected_word)
            => verdict[r].script_similarity = 1000

\* C5: the two passes run in parallel: transcribe calls that each wait on a
\* two-party barrier for the other to have started both complete.
C5_BarrierPassesBothComplete ==
    \A r \in Reqs :
        (Returned(r) /\ inp[r].blocking /\ started[r] # {} /\ exc[r] \notin {"file", "transcribe"})
            => finished[r] = {"native", "roman"}

\* C6: a call whose conversion and model load succeeded invokes
\* model.transcribe exactly twice.
C6_ExactlyTwoTranscribeCalls ==
    \A r \in Reqs :
        (Returned(r) /\ wav_path[r] # NoPath /\ model[r] # 0) => calls[r] = 2

\* C7: the Whisper model is constructed at most once per process, also when
\* requests make their first get_whisper_model call concurrently.
C7_ModelConstructedAtMostOnce == loads <= 1

\* C8: once recognize_speech has returned, no scratch file of the request
\* (input temp file or converted WAV) exists, on every path.
C8_NoScratchFileAfterReturn ==
    \A r \in Reqs :
        pc[r] \in {"done", "raised"} => \A f \in files : f.base # r

\* C9: in a success verdict 'transcribed' is the romanized transcript when
\* roman_similarity is strictly greater than script_similarity and the native
\* transcript otherwise (the transcripts being the pair _transcribe returned).
C9_TranscribedFollowsHigherScore ==
    \A r \in Reqs :
        (Returned(r) /\ ~HasError(r)) =>
            verdict[r].transcribed =
                IF ScoreGt(sims[r].roman, sims[r].script)
                THEN transcribed_roman[r] ELSE transcribed_native[r]

\* C9 witness: both passes ran, their transcripts differ, the scores tie above
\* zero and the native transcript is shown.
C9_Witness ==
    \E r \in Reqs :
        /\ Returned(r) /\ ~HasError(r)
        /\ finished[r] = {"native", "roman"}
        /\ transcribed_native[r] # transcribed_roman[r]
        /\ sims[r].script = sims[r].roman
        /\ sims[r].script.n > 0
        /\ verdict[r].transcribed = transcribed_native[r]

\* Transcripts the model produced for the request.
Produced(r) ==
    (IF "roman" \in finished[r] THEN {Strip(inp[r].roman)} ELSE {}) \cup
    (IF "native" \in finished[r] THEN {Strip(inp[r].native)} ELSE {})

\* C10: 'transcribed' is one of the transcripts the model actually produced for
\* the request, never a value that no pass produced (stated here for the
\* verdicts built from transcripts, those without 'error').
C10_TranscribedWasProduced ==
    \A r \in Reqs :
        (Returned(r) /\ ~HasError(r)) => verdict[r].transcribed \in Produced(r)

\* C11: with expected_romanized empty, roman_similarity in the verdict is 0.0
\* for every pair of transcripts and every threshold.
C11_NoRomanizedScoresZero ==
    \A r \in Reqs :
        (Returned(r) /\ inp[r].romanized = <<>>) => verdict[r].roman_similarity = 0

\* C11 witness: no romanized guide, the romanized pass heard the expected word
\* itself, and the success verdict reports roman_similarity 0.0.
C11_Witness ==
    \E r \in Reqs :
        /\ Returned(r) /\ ~HasError(r)
        /\ inp[r].romanized = <<>>
        /\ transcribed_roman[r] = inp[r].expected_word
        /\ verdict[r].roman_similarity = 0

\* C12: when audio conversion fails, the error verdict is returned without any
\* get_whisper_model or model.transcribe call: the request reaches the model
\* steps only with a converted WAV path, and a request without one ends with an
\* error verdict, no model and no transcribe call.
C12_ConversionFailureSkipsModel ==
    \A r \in Reqs :
        /\ pc[r] \in {"get_model", "load", "load_return", "pass2", "pass1", "score"}
              => wav_path[r] # NoPath
        /\ (Returned(r) /\ wav_path[r] = NoPath)
              => /\ HasError(r)
                 /\ exc[r] \in {"write", "decode", "export"}
                 /\ model[r] = 0
                 /\ calls[r] = 0
                 /\ started[r] = {}

\* C12 witness: a request whose decode failed has returned its error verdict.
C12_Witness ==
    \E r \in Reqs :
        Returned(r) /\ exc[r] = "decode" /\ HasError(r) /\ calls[r] = 0 /\ model[r] = 0

\* C13: once get_whisper_model has returned a model to some caller, the cached
\* instance is never replaced and no further instance is constructed.
C13_CachedModelNeverReplaced ==
    [][(\E r \in Reqs : model[r] # 0) => (whisper_model' = whisper_model /\ loads' = loads)]_vars

\* C14: normalize_text is idempotent: normalising an already normalised string
\* returns it unchanged, also when letters, whitespace and stripped punctuation
\* meet at the edges of the string.
C14_NormalizeIdempotent ==
    (arg.fn = "normalize_text" /\ Len(res) = 2) => res[2] = res[1]

\* C15: calculate_similarity returns exactly 0.0 whenever the normalised actual
\* text is empty, whatever the expected text is, the empty one included.
C15_EmptyActualScoresZero ==
    (arg.fn = "calculate_similarity" /\ res # <<>> /\ normalize_text(arg.b) = <<>>)
        => res[1] = ZeroScore

C15_Witness ==
    /\ arg.fn = "calculate_similarity"
    /\ arg.a = <<>>
    /\ arg.b = <<" ", "!">>
    /\ res = <<ZeroScore>>

\* C18: mime_to_ext answers for every string: the table entry of the trimmed,
\* lower-cased string if there is one, else the entry of its part before the
\* first ';' if there is one, else "webm"; always one of the five extensions.
C18_MimeToExtTotal ==
    (arg.fn = "mime_to_ext" /\ res # <<>>) =>
        LET mime_clean == MimeLowerStr(Strip(arg.a))
            base == Strip(BeforeSemicolon(mime_clean))
        IN /\ res[1] \in {"webm", "ogg", "mp4", "mp3", "wav"}
           /\ mime_clean \in DOMAIN MIME_TO_EXT => res[1] = MIME_TO_EXT[mime_clean]
           /\ (mime_clean \notin DOMAIN MIME_TO_EXT /\ base \in DOMAIN MIME_TO_EXT)
                 => res[1] = MIME_TO_EXT[base]
           /\ (mime_clean \notin DOMAIN MIME_TO_EXT /\ base \notin DOMAIN MIME_TO_EXT)
                 => res[1] = "webm"

C18_Witness ==
    /\ arg.fn = "mime_to_ext"
    /\ arg.a = <<"AUDIO/WAV", ";", "codecs=x">>
    /\ res = <<"wav">>

\* C19: a language string outside the language-code table does not make
\* recognize_speech fail: the native pass is given the fallback code "te", the
\* only failures are those of conversion, model loading and transcription, and
\* the verdict returned echoes the language string as it was passed in.
C19_UnknownLanguageFallsBack ==
    \A r \in Reqs :
        (inp[r] # NoInput /\ inp[r].language \notin DOMAIN LANGUAGE_CODES) =>
            /\ "native" \in started[r] => (Len(hints[r]) = 2 /\ hints[r][2] = "te")
            /\ exc[r] \in {"", "write", "decode", "export", "load", "file", "barrier", "transcribe"}
            /\ Returned(r) => verdict[r].language = inp[r].language
            /\ (Returned(r) /\ exc[r] = "") => ~HasError(r)

C19_Witness ==
    \E r \in Reqs :
        /\ Returned(r)
        /\ ~HasError(r)
        /\ inp[r].language = "klingon"
        /\ hints[r] = <<"en", "te">>
        /\ verdict[r].language = "klingon"

C17_NoiseReductionFailureIsHarmless ==
    \A r \in Reqs :
        LET a == audio[r]
        IN /\ exc[r] # "noise"
           /\ a.nr # "none" => NOISE_REDUCTION_ENABLED
           /\ pc[r] = "noise" => (a.resampled /\ a.nr = "none" /\ a.silence = 0)
           /\ (pc[r] \in {"pad", "export"} /\ NOISE_REDUCTION_ENABLED) => a.nr # "none"
           /\ a.nr = "failed" =>
                 /\ pc[r] \in {"pad", "export"}
                 /\ exc[r] = ""
                 /\ a.samples = "raw"
                 /\ a.frames = a.decoded + a.silence

C17_Witness ==
    \E r \in Reqs :
        /\ pc[r] = "export"
        /\ NOISE_REDUCTION_ENABLED
        /\ audio[r].nr = "failed"
        /\ audio[r].samples = "raw"
        /\ audio[r].silence > 0

\* C20: POST /api/recognize reaches recognize_speech only with a language in
\* VALID_LANGUAGES, a threshold that parses to a number in [0, 100] and audio
\* that is non-empty and at most MAX_AUDIO_BYTES; every other form is answered
\* with 400, or 413 when the audio is too large, and recognize_speech is not
\* called.
C20_RecognizeOnlyAfterValidation ==
    \A r \in Reqs :
        /\ pc[r] = "rejected" => form[r].received
        /\ form[r].received =>
              LET f == form[r]
                  t == ParseFloat(f.similarity_threshold)
                  valid == /\ f.language \in VALID_LANGUAGES
                           /\ t.kind = "num" /\ 0 <= t.val /\ t.val <= 10000
                           /\ 0 < f.audio_len /\ f.audio_len <= MAX_AUDIO_BYTES
              IN IF valid
                 THEN /\ http_status[r] = 0
                      /\ pc[r] # "rejected"
                      /\ inp[r].language = f.language
                      /\ inp[r].threshold = t.val
                 ELSE /\ pc[r] = "rejected"
                      /\ http_status[r] \in {400, 413}
                      /\ http_status[r] = 413 => f.audio_len > MAX_AUDIO_BYTES
                      /\ inp[r] = NoInput
                      /\ tmp_in_path[r] = NoPath
                      /\ calls[r] = 0
                      /\ verdict[r] = NoVerdict

C20_Witness ==
    \E r \in Reqs :
        /\ pc[r] = "rejected"
        /\ http_status[r] = 413
        /\ form[r].language = "telugu"
        /\ form[r].similarity_threshold = "100"
        /\ form[r].audio_len = MAX_AUDIO_BYTES + 1

C25_ScoringAfterBothPasses ==
    \A r \in Reqs : sim_calls[r] > 0 => finished[r] = {"native", "roman"}

\* C26: whatever the extension of the input, the WAV file _convert_to_wav
\* returned still exists when a transcription pass is about to read it.
C26_WavExistsForTranscription ==
    \A r \in Reqs : pc[r] \in {"pass2", "pass1"} => wav_path[r] \in files

\* C27: when the native pass was skipped, the verdict shows the transcript of
\* the romanized pass.
C27_SkippedShowsRomanTranscript ==
    \A r \in Reqs :
        (Returned(r) /\ ~HasError(r) /\ "native" \notin started[r])
            => verdict[r].transcribed = transcribed_roman[r]

\* C28: a WhisperModel construction that raises leaves the cache empty: the
\* cache only ever holds a fully constructed instance, the failing request
\* got no model, made no transcribe call and ends in an error verdict, and a
\* later request finds the cache empty and constructs again.
C28_FailedLoadLeavesCacheEmpty ==
    /\ whisper_model \in 0..loads
    /\ whisper_model = 0 <=> loads = 0
    /\ \A r \in Reqs :
          /\ pc[r] = "load" => whisper_model = 0
          /\ exc[r] = "load" =>
                /\ model[r] = 0
                /\ calls[r] = 0
                /\ ~propagated[r]
                /\ InFlight(r) => whisper_model = 0
                /\ Returned(r) => HasError(r)

\* C28 witness: a request whose load failed returned an error verdict and a
\* later request constructed the model and returned a normal verdict.
C28_Witness ==
    \E r1 \in Reqs, r2 \in Reqs :
        /\ Returned(r1) /\ exc[r1] = "load" /\ HasError(r1)
        /\ Returned(r2) /\ ~HasError(r2) /\ model[r2] = 1
        /\ loads = 1

\* C21: generate_tts calls the synthesizer first with the code of the language
\* (or "en" for a language without one), calls it a second time, with "en",
\* only after the first call raised, returns the bytes of the first call that
\* succeeded, raises only when both calls raised, and makes at most two calls.
C21_TtsFallsBackOnce ==
    LET c == tts.calls
        code == CASE tts.language = "telugu" -> "te"
                  [] tts.language = "assamese" -> "as"
                  [] OTHER -> "en"
    IN /\ Len(c) <= 2
       /\ Len(c) >= 1 => c[1].lang = code
       /\ Len(c) = 2 => (~c[1].ok /\ c[2].lang = "en")
       /\ tts.pc = "fallback" => (Len(c) = 1 /\ ~c[1].ok)
       /\ tts.pc = "returned" =>
             /\ Len(c) >= 1
             /\ c[Len(c)].ok
             /\ tts.result = <<[text |-> tts.text, lang |-> c[Len(c)].lang, slow |-> tts.slow]>>
       /\ tts.pc = "raised" => (Len(c) = 2 /\ ~c[1].ok /\ ~c[2].ok)

\* C21 witness: the Telugu call raised and the English call succeeded.
C21_Witness ==
    /\ tts.pc = "returned"
    /\ tts.language = "telugu"
    /\ tts.calls = <<[lang |-> "te", ok |-> FALSE], [lang |-> "en", ok |-> TRUE]>>

\* C22: POST /api/config answers 413, without parsing the body, every request
\* whose body is larger than MAX_CONFIG_BODY.
C22_OversizedConfigRejected ==
    (config_req.pc = "responded" /\ config_req.body_len > MAX_CONFIG_BODY)
        => (config_req.status = 413 /\ ~config_req.parsed)

\* C23: the daily guardrail touches the Cloud Run service only for a
\* notification whose incident state is exactly "open", and then writes max
\* and min instance count 0; for any other or missing state it neither reads
\* nor updates the service.
C23_GuardrailActsOnlyOnOpen ==
    \A i \in 1..Len(invocations) :
        LET v == invocations[i]
            open == v.notification.incident /\ v.notification.state = "open"
        IN v.kind = "daily_guardrail" =>
              /\ ~open => (v.reads = 0 /\ v.updates = 0 /\ v.pc \in {"returned", "raised"})
              /\ v.pc = "update" => v.write = Scaling(0, 0)
              /\ v.updates > 0 => (open /\ v.write = Scaling(0, 0))

\* C23 witness: one invocation ignored an "OPEN" notification and another
\* scaled the service to 0 for an "open" one.
C23_Witness ==
    \E i, j \in 1..Len(invocations) :
        /\ invocations[i].kind = "daily_guardrail"
        /\ invocations[i].notification = [incident |-> TRUE, state |-> "OPEN"]
        /\ invocations[i].pc = "returned"
        /\ invocations[j].kind = "daily_guardrail"
        /\ invocations[j].notification = [incident |-> TRUE, state |-> "open"]
        /\ invocations[j].updates = 1
        /\ service = Scaling(0, 0)

\* C30: once kill_run has set max_instance_count to 0, the service stays at 0
\* under every later sequence of daily_guardrail and restore_run invocations.
C30_KilledServiceStaysAtZero ==
    killed => service.max_instance_count = 0

\* C29: after any sequence of connect and disconnect calls, overlapping ones
\* included, every connection that was opened is the one held in _reachy or
\* _ssh or has been closed.
C29_NoConnectionDropped ==
    (\A t \in DOMAIN tasks : tasks[t].pc = "idle") =>
        \A c \in DOMAIN connections :
            connections[c].closed \/ c = reachy \/ c = ssh

====
